---- MODULE Spec2Model ----
(***************************************************************************)
(* State-machine model of idom/client/manage.py: the client build          *)
(* pipeline build(), restore() and the read-only accessors                 *)
(* web_module_url() and find_client_build_path().                          *)
(*                                                                         *)
(* The file system is modelled as the three places the code touches:      *)
(*   tree     BUILD_DIR = APP_DIR/build, the published Output Tree         *)
(*   staging  the TemporaryDirectory of build() and its app/ copy          *)
(*   APP_DIR  the template: package.json plus the nested BUILD_DIR         *)
(* BuildConfig (build_config.py) is not part of the modelled sources; its  *)
(* operations follow the specification's Configuration Store.             *)
(***************************************************************************)
EXTENDS Integers, Sequences, FiniteSets, TLC

VARIABLES
    pc,            \* position of the single caller thread inside build()/restore()
    BUILD_CONFIG,  \* _BUILD_CONFIG: <<>> is None, <<data>> an initialised store
    tree,          \* BUILD_DIR
    staging,       \* the TemporaryDirectory of the running build()
    calls,         \* external tool invocations of the running / last operation
    op,            \* the running / last operation: "none", "build", "restore"
    outcome,       \* how the last operation ended ("running" while inside one)
    curItems,      \* config_items argument of the running / last build()
    curDisc,       \* what Discovery returned in the running / last build()
    treeAtCall,    \* BUILD_DIR when the running / last operation was called
    dataAtCall,    \* store contents when the running / last operation was called
    repeat,        \* the running / last build() repeats the inputs of a successful
                   \* build() that ran right before it
    bundlerCleans, \* whether the external bundler empties its output directory first
    query,         \* last find_client_build_path() call made by a client
    app,           \* APP_DIR outside BUILD_DIR: package.json and node_modules
    proc           \* one _run_subprocess() call: the tool's exit status and stderr
                   \* bytes, and what the call raised

vars == <<pc, BUILD_CONFIG, tree, staging, calls, op, outcome, curItems, curDisc,
          treeAtCall, dataAtCall, repeat, bundlerCleans, query, app, proc>>

----------------------------------------------------------------------------
(* Bounds *)

MaxItems == 2      \* longest config_items argument
MaxPathLen == 4    \* longest rel_path argument, in path atoms
MaxStderr == 3     \* longest captured stderr, in bytes

----------------------------------------------------------------------------
(* Values *)

None == "None"

\* source names: "A" passes its entry to build(), "B" and "C" are installed
\* packages found by Discovery, and the hook of "C" raises
Sources == {"A", "B"}
Healthy == {"B"}
Broken == {"C"}
Packages == {"p"}
Pairs == Sources \X Packages

\* a malformed BuildConfigItem, rejected by update_config_items
BadItem == <<"bad", "bad">>
Items == {<<"A", "p">>, BadItem}

RECURSIVE SeqsUpTo(_, _)
SeqsUpTo(S, n) ==
    IF n = 0 THEN {<<>>}
    ELSE LET shorter == SeqsUpTo(S, n - 1)
         IN  shorter \cup {Append(s, x) : s \in {t \in shorter : Len(t) = n - 1}, x \in S}

Range(s) == {s[i] : i \in 1..Len(s)}

----------------------------------------------------------------------------
(* Configuration Store (BuildConfig) *)

\* the alias of a (source_name, package_name) entry: deterministic and injective
AliasOf(item) == item[1] \o "_" \o item[2]

\* BuildConfig.get_js_dependency_alias
get_js_dependency_alias(data, source_name, package_name) ==
    IF <<source_name, package_name>> \in Range(data)
    THEN AliasOf(<<source_name, package_name>>)
    ELSE None

\* BuildConfig.all_js_dependency_aliases: insertion order
all_js_dependency_aliases(data) == [i \in 1..Len(data) |-> AliasOf(data[i])]

\* BuildConfig.all_aliased_js_dependencies: insertion order
all_aliased_js_dependencies(data) ==
    [i \in 1..Len(data) |-> AliasOf(data[i]) \o "@npm:" \o data[i][2]]

\* BuildConfig.update_config_items: entries are applied in order; a known
\* entry keeps its place, a new one is appended, a malformed one raises and
\* leaves the entries before it applied to the working copy
RECURSIVE update_config_items(_, _)
update_config_items(data, items) ==
    IF items = <<>> THEN [data |-> data, raised |-> FALSE]
    ELSE IF Head(items) \notin Pairs THEN [data |-> data, raised |-> TRUE]
    ELSE update_config_items(
            IF Head(items) \in Range(data) THEN data ELSE Append(data, Head(items)),
            Tail(items))

----------------------------------------------------------------------------
(* Directories *)

\* a build directory: state is "absent", "partial" or "complete"; modules are
\* the names n with a file web_modules/<n>.js; cfg is <<>> when the directory
\* holds no configuration file and <<data>> when it holds one
AbsentTree == [state |-> "absent", modules |-> {}, cfg |-> <<>>]

\* snowpack.install of the template's package.json
TemplateInstall == <<"core">>

PristineTree == [state |-> "complete", modules |-> Range(TemplateInstall), cfg |-> <<>>]

\* APP_DIR as shipped: package.json with its snowpack.install list and its
\* other sections, and no node_modules yet
Template == [install |-> TemplateInstall, rest |-> "scripts", node_modules |-> FALSE]

NoDir == [exists |-> FALSE, copied |-> FALSE, install |-> <<>>, rest |-> "", packages |-> <<>>,
          build |-> AbsentTree]

\* the build directory the bundler leaves behind when run on a directory whose
\* build/ is `dir` and whose manifest lists `install`: one web module per entry
BundlerOutput(dir, install, cleans) ==
    [state   |-> "complete",
     modules |-> (IF cleans THEN {} ELSE dir.modules) \cup Range(install),
     cfg     |-> IF cleans THEN <<>> ELSE dir.cfg]

\* what an interrupted copy or delete can leave of a directory
PartialOf(dir) ==
    {[state |-> "partial", modules |-> m, cfg |-> <<>>] : m \in {{}, dir.modules}}

----------------------------------------------------------------------------
(* Paths.  A string is a sequence of atoms: "/" is the separator character, *)
(* "." the dot character, every other atom a run of ordinary characters.    *)

PathAtoms == {"/", ".", "web_modules", "package.json", "A_p.js"}

PathInputs == SeqsUpTo(PathAtoms, MaxPathLen)

\* str.startswith("/")
startswith_slash(rel_path) == rel_path # <<>> /\ rel_path[1] = "/"

\* str.split("/")
RECURSIVE split(_)
split(s) ==
    IF \A i \in 1..Len(s) : s[i] # "/" THEN <<s>>
    ELSE LET i == CHOOSE k \in 1..Len(s) : s[k] = "/" /\ \A j \in 1..(k - 1) : s[j] # "/"
         IN  <<SubSeq(s, 1, i - 1)>> \o split(SubSeq(s, i + 1, Len(s)))

\* APP_DIR = Path(__file__).parent / "app"; BUILD_DIR = APP_DIR / "build"
APP_DIR == << <<"client">>, <<"app">> >>
BUILD_DIR == APP_DIR \o << <<"build">> >>

\* Path.joinpath: empty and "." segments vanish, ".." segments are kept
joinpath(base, segments) ==
    base \o SelectSeq(segments, LAMBDA seg : seg # <<>> /\ seg # <<".">>)

\* the directories and files of the file system, as sequences of names
FsDirs(dir) ==
    {<<>>, <<"client">>, <<"client", "app">>}
    \cup (IF dir.state = "absent" THEN {} ELSE {<<"client", "app", "build">>})
    \cup (IF dir.modules = {} THEN {} ELSE {<<"client", "app", "build", "web_modules">>})

FsFiles(dir) ==
    {<<"client", "app", "package.json">>}
    \cup {<<"client", "app", "build", "web_modules", m \o ".js">> : m \in dir.modules}
    \cup (IF dir.cfg = <<>> THEN {} ELSE {<<"client", "app", "build", "idom-build-config.json">>})

\* the operating system's resolution of a path: every component is looked up
\* in the directory reached so far; ".." is the parent (of the root, the root)
RECURSIVE Resolve(_, _, _)
Resolve(loc, comps, dir) ==
    IF comps = <<>> THEN [ok |-> loc \in FsDirs(dir) \cup FsFiles(dir), loc |-> loc]
    ELSE IF loc \notin FsDirs(dir) THEN [ok |-> FALSE, loc |-> loc]
    ELSE LET c == Head(comps)
         IN  IF c = <<".", ".">>
             THEN Resolve(IF loc = <<>> THEN loc ELSE SubSeq(loc, 1, Len(loc) - 1),
                          Tail(comps), dir)
             ELSE IF Len(c) = 1 /\ c[1] \notin {"/", "."}
             THEN Resolve(Append(loc, c[1]), Tail(comps), dir)
             ELSE [ok |-> FALSE, loc |-> loc]

\* Path.exists
exists(path, dir) == Resolve(<<>>, path, dir).ok

\* mutant: the check for a leading "/" is missing
find_client_build_path_unchecked(rel_path, dir) ==
    LET builtin_path == joinpath(BUILD_DIR, split(rel_path))
    IN  IF exists(builtin_path, dir)
        THEN [raised |-> FALSE, found |-> TRUE, path |-> builtin_path, fs |-> TRUE]
        ELSE [raised |-> FALSE, found |-> FALSE, path |-> <<>>, fs |-> TRUE]

\* find_client_build_path(rel_path) -> Optional[Path]
find_client_build_path(rel_path, dir) ==
    IF startswith_slash(rel_path)
    THEN [raised |-> TRUE, found |-> FALSE, path |-> <<>>, fs |-> FALSE]
    ELSE LET builtin_path == joinpath(BUILD_DIR, split(rel_path))
         IN  IF exists(builtin_path, dir)
             THEN [raised |-> FALSE, found |-> TRUE, path |-> builtin_path, fs |-> TRUE]
             ELSE [raised |-> FALSE, found |-> FALSE, path |-> <<>>, fs |-> TRUE]

\* find_js_module_exports(module_file): the names the built module exports
find_js_module_exports(module_file) == <<"default">>

\* mutant: the module file is parsed without checking that it was found
web_module_exports_unchecked(data, dir, source_name, package_name) ==
    LET dep_alias == get_js_dependency_alias(data, source_name, package_name)
        module_file == find_client_build_path(<<"web_modules", "/", dep_alias \o ".js">>, dir)
    IN  IF dep_alias = None THEN [raised |-> FALSE, exports |-> <<>>]
        ELSE IF ~module_file.found THEN [raised |-> TRUE, exports |-> <<>>]
        ELSE [raised |-> FALSE, exports |-> find_js_module_exports(module_file.path)]

\* web_module_exports(source_name, package_name) -> List[str]
web_module_exports(data, dir, source_name, package_name) ==
    LET dep_alias == get_js_dependency_alias(data, source_name, package_name)
        module_file == find_client_build_path(<<"web_modules", "/", dep_alias \o ".js">>, dir)
    IN  IF dep_alias = None THEN [raised |-> FALSE, exports |-> <<>>]
        ELSE IF module_file.raised THEN [raised |-> TRUE, exports |-> <<>>]
        ELSE IF ~module_file.found THEN [raised |-> FALSE, exports |-> <<>>]
        ELSE [raised |-> FALSE, exports |-> find_js_module_exports(module_file.path)]

\* mutant: the URL is returned without checking that the built file exists
web_module_url_unchecked(data, dir, source_name, package_name) ==
    LET dep_alias == get_js_dependency_alias(data, source_name, package_name)
    IN  IF dep_alias = None THEN None
        ELSE "../web_modules/" \o dep_alias \o ".js"

\* web_module_url(source_name, package_name) -> Optional[str]
web_module_url(data, dir, source_name, package_name) ==
    LET dep_alias == get_js_dependency_alias(data, source_name, package_name)
    IN  IF dep_alias = None THEN None
        ELSE IF ~find_client_build_path(<<"web_modules", "/", dep_alias \o ".js">>, dir).found
        THEN None
        ELSE "../web_modules/" \o dep_alias \o ".js"

----------------------------------------------------------------------------
(* Initial state: the module has just been imported (_BUILD_CONFIG is None) *)
(* and the package ships the pristine client build.                         *)

NoDisc == [ok |-> {}, err |-> {}]
NoProc == [ran |-> FALSE, exit |-> 0, stderr |-> <<>>, raised |-> "none", message |-> <<>>]
NoQuery == [asked |-> FALSE, rel_path |-> <<>>,
            res |-> [raised |-> FALSE, found |-> FALSE, path |-> <<>>, fs |-> FALSE]]

Init ==
    /\ pc = "idle"
    /\ BUILD_CONFIG = <<>>
    /\ tree = PristineTree
    /\ staging = NoDir
    /\ calls = <<>>
    /\ op = "none"
    /\ outcome = "none"
    /\ curItems = <<>>
    /\ curDisc = NoDisc
    /\ treeAtCall = PristineTree
    /\ dataAtCall = <<>>
    /\ repeat = FALSE
    /\ bundlerCleans \in BOOLEAN
    /\ query = NoQuery
    /\ app = Template
    /\ proc = NoProc

\* BuildConfig(BUILD_DIR): the store's contents are read from its file under
\* the build directory, and are empty when there is no file
LoadConfig(dir) == IF dir.cfg = <<>> THEN <<>> ELSE dir.cfg[1]

\* build_config(): the contents of the lazily created singleton store
Data == IF BUILD_CONFIG = <<>> THEN LoadConfig(tree) ELSE BUILD_CONFIG[1]

\* what Discovery can return: ok are the installed contributors whose hook
\* returned its entry, err those whose hook raised; configs lists the
\* contributed entries in a fixed order
DiscResults == [ok : SUBSET Healthy, err : SUBSET Broken]

DiscOrder == <<"A", "B">>

find_python_packages_build_config_items(disc) ==
    [configs |-> [i \in 1..Len(SelectSeq(DiscOrder, LAMBDA c : c \in disc.ok)) |->
                    <<SelectSeq(DiscOrder, LAMBDA c : c \in disc.ok)[i], "p">>],
     errors  |-> disc.err]

\* mutant: a Discovery error aborts the transaction
DiscoveryErrorsAbort(errors) == errors # {}

\* lines 67-68: every Discovery error is echoed to the console; none is raised
DiscoveryErrorsRaise(errors) == FALSE

\* BuildConfig._save at commit: the store's file is written under the build
\* directory; when that directory is missing the write either fails or the
\* directory is created for the file
SaveOutcomes(dir, data) ==
    IF dir.state = "absent"
    THEN {[ok |-> FALSE, dir |-> dir],
          [ok |-> TRUE, dir |-> [state |-> "partial", modules |-> {}, cfg |-> <<data>>]]}
    ELSE {[ok |-> TRUE, dir |-> [dir EXCEPT !.cfg = <<data>>]]}

\* what every call of build() or restore() records on entry
Enter(name, items, disc) ==
    /\ op' = name
    /\ curItems' = items
    /\ curDisc' = disc
    /\ treeAtCall' = tree
    /\ dataAtCall' = Data
    /\ repeat' = (name = "build" /\ op = "build" /\ outcome = "ok"
                     /\ curItems = items /\ curDisc = disc)
    /\ calls' = <<>>

\* mutant: the staging directory is left behind
KeepTemporaryDirectory(dir) == dir

\* TemporaryDirectory.__exit__: the staging directory is removed
ExitTemporaryDirectory(dir) == NoDir

\* leaving build() from inside the TemporaryDirectory block
Leave(how) ==
    /\ pc' = "idle"
    /\ outcome' = how
    /\ staging' = ExitTemporaryDirectory(staging)

history == <<op, curItems, curDisc, treeAtCall, dataAtCall, repeat>>

\* mutant: the store keeps the entries applied before the body raised
BuildTransactionRaisesNoRollback(items, disc) ==
    /\ pc = "idle"
    /\ LET r1 == update_config_items(Data, items)
           found == find_python_packages_build_config_items(disc)
           r2 == update_config_items(r1.data, found.configs)
       IN  /\ r1.raised \/ DiscoveryErrorsRaise(found.errors) \/ r2.raised
           /\ Enter("build", items, IF r1.raised THEN NoDisc ELSE disc)
           /\ r1.raised => disc = NoDisc
           /\ BUILD_CONFIG' = <<IF r1.raised THEN r1.data ELSE r2.data>>
    /\ pc' = "idle"
    /\ outcome' = "transaction_raised"
    /\ UNCHANGED <<tree, staging, bundlerCleans, query, app, proc>>

\* build(), lines 60-69: the transaction's body raises and the store rolls back
BuildTransactionRaises(items, disc) ==
    /\ pc = "idle"
    /\ LET r1 == update_config_items(Data, items)
           found == find_python_packages_build_config_items(disc)
           r2 == update_config_items(r1.data, found.configs)
       IN  /\ r1.raised \/ DiscoveryErrorsRaise(found.errors) \/ r2.raised
           /\ Enter("build", items, IF r1.raised THEN NoDisc ELSE disc)
           /\ r1.raised => disc = NoDisc
    /\ BUILD_CONFIG' = <<Data>>
    /\ pc' = "idle"
    /\ outcome' = "transaction_raised"
    /\ UNCHANGED <<tree, staging, bundlerCleans, query, app, proc>>

\* build(), lines 60-69: the transaction's body runs to its end and commits
BuildTransaction(items, disc) ==
    /\ pc = "idle"
    /\ LET r1 == update_config_items(Data, items)
           found == find_python_packages_build_config_items(disc)
           r2 == update_config_items(r1.data, found.configs)
       IN  /\ ~r1.raised /\ ~DiscoveryErrorsRaise(found.errors) /\ ~r2.raised
           /\ Enter("build", items, disc)
           /\ \E saved \in SaveOutcomes(tree, r2.data) :
                 /\ tree' = saved.dir
                 /\ BUILD_CONFIG' = <<IF saved.ok THEN r2.data ELSE Data>>
                 /\ pc' = IF saved.ok THEN "mktemp" ELSE "idle"
                 /\ outcome' = IF saved.ok THEN "running" ELSE "save_raised"
    /\ UNCHANGED <<staging, bundlerCleans, query, app, proc>>

\* _run_subprocess(args, cwd): a non-zero exit status raises out of the call
\* (CalledProcessError is caught, and the handler raises in its place)
run_subprocess_raises(exit) == exit # 0

\* bytes the tool may write to stderr: "a", the two bytes of U+00E9, and a
\* byte that occurs in no UTF-8 text
Bytes == {97, 195, 169, 255}

StderrOutputs == SeqsUpTo(Bytes, MaxStderr)

IsContinuation(b) == b >= 128 /\ b <= 191

\* bytes.decode(): strict UTF-8, for one- and two-byte sequences; any other
\* byte of Bytes starts no sequence and makes the decoder raise
RECURSIVE decode(_)
decode(bytes) ==
    IF bytes = <<>> THEN [ok |-> TRUE, text |-> <<>>]
    ELSE LET b == Head(bytes)
         IN IF b < 128
            THEN LET rest == decode(Tail(bytes))
                 IN [ok |-> rest.ok, text |-> <<b>> \o rest.text]
            ELSE IF b >= 194 /\ b <= 223 /\ Len(bytes) >= 2 /\ IsContinuation(bytes[2])
            THEN LET rest == decode(Tail(Tail(bytes)))
                 IN [ok |-> rest.ok,
                     text |-> <<(b - 192) * 64 + (bytes[2] - 128)>> \o rest.text]
            ELSE [ok |-> FALSE, text |-> <<>>]

\* str.encode(): the UTF-8 bytes of a text of code points below U+0800
RECURSIVE encode(_)
encode(text) ==
    IF text = <<>> THEN <<>>
    ELSE LET ch == Head(text)
         IN (IF ch < 128 THEN <<ch>> ELSE <<192 + (ch \div 64), 128 + (ch % 64)>>)
            \o encode(Tail(text))

\* str(UnicodeDecodeError): begins "'utf-8' codec can't decode byte"
CodecMessage == <<39, 117, 116, 102, 45, 56, 39>>

\* _run_subprocess(args, cwd) for a tool that exits with `exit` after writing
\* `stderr`: what the call raises, and the message of the exception
run_subprocess(exit, stderr) ==
    IF exit = 0 THEN [raised |-> "none", message |-> <<>>]
    ELSE IF decode(stderr).ok
    THEN [raised |-> "SubprocessError", message |-> decode(stderr).text]
    ELSE [raised |-> "UnicodeDecodeError", message |-> CodecMessage]

RunSubprocess ==
    /\ ~proc.ran
    /\ LET r == run_subprocess(proc.exit, proc.stderr)
       IN proc' = [proc EXCEPT !.ran = TRUE, !.raised = r.raised, !.message = r.message]
    /\ UNCHANGED <<pc, BUILD_CONFIG, tree, staging, calls, outcome, history, bundlerCleans, query, app>>

ExitCodes == {0, 1}

Call(tool, cwd, packages) == [tool |-> tool, cwd |-> cwd, packages |-> packages]

\* build(), line 71: the TemporaryDirectory is created
BuildMkTemp ==
    /\ pc = "mktemp"
    /\ staging' = [NoDir EXCEPT !.exists = TRUE]
    /\ pc' = "copytree"
    /\ UNCHANGED <<BUILD_CONFIG, tree, calls, outcome, history, bundlerCleans, query, app, proc>>

\* build(), line 78: APP_DIR, with the BUILD_DIR inside it, is copied to the staging directory
BuildCopyTree ==
    /\ pc = "copytree"
    /\ staging' = [staging EXCEPT !.copied = TRUE, !.install = app.install, !.rest = app.rest,
                                   !.build = tree]
    /\ pc' = "merge"
    /\ UNCHANGED <<BUILD_CONFIG, tree, calls, outcome, history, bundlerCleans, query, app, proc>>

BuildCopyTreeFails ==
    /\ pc = "copytree"
    /\ Leave("copytree_raised")
    /\ UNCHANGED <<BUILD_CONFIG, tree, calls, history, bundlerCleans, query, app, proc>>

\* mutant: an alias the list already holds is not appended again
MergedInstallDedup(install, data) ==
    install \o SelectSeq(all_js_dependency_aliases(data), LAMBDA a : a \notin Range(install))

\* mutant: only the aliases added by the running call are appended
MergedInstallNewOnly(install, data) ==
    install \o all_js_dependency_aliases(SelectSeq(data, LAMBDA e : e \notin Range(dataAtCall)))

\* build(), lines 82-86: the staged manifest's snowpack.install list is extended
MergedInstall(install, data) == install \o all_js_dependency_aliases(data)

\* mutant: the merge edits the package.json of APP_DIR as well
BuildMergeInPlace ==
    /\ pc = "merge"
    /\ staging' = [staging EXCEPT !.install = MergedInstall(staging.install, Data)]
    /\ app' = [app EXCEPT !.install = MergedInstall(app.install, Data)]
    /\ pc' = "install"
    /\ UNCHANGED <<BUILD_CONFIG, tree, calls, outcome, history, bundlerCleans, query, proc>>

BuildMerge ==
    /\ pc = "merge"
    /\ staging' = [staging EXCEPT !.install = MergedInstall(staging.install, Data)]
    /\ pc' = "install"
    /\ UNCHANGED <<BUILD_CONFIG, tree, calls, outcome, history, bundlerCleans, query, app, proc>>

BuildMergeFails ==
    /\ pc = "merge"
    /\ Leave("merge_raised")
    /\ UNCHANGED <<BUILD_CONFIG, tree, calls, history, bundlerCleans, query, app, proc>>

\* mutant: a failed install undoes the commit of the store
BuildInstallRollsBack(exit) ==
    /\ pc = "install"
    /\ calls' = Append(calls, Call("install", "staging", all_aliased_js_dependencies(Data)))
    /\ IF run_subprocess_raises(exit)
       THEN /\ Leave("install_raised")
            /\ BUILD_CONFIG' = <<dataAtCall>>
       ELSE /\ staging' = [staging EXCEPT !.packages = all_aliased_js_dependencies(Data)]
            /\ pc' = "run_build"
            /\ UNCHANGED <<outcome, BUILD_CONFIG>>
    /\ UNCHANGED <<tree, history, bundlerCleans, query, app, proc>>

\* build(), line 93: _npm_install(packages_to_install, temp_app_dir)
BuildInstall(exit) ==
    /\ pc = "install"
    /\ calls' = Append(calls, Call("install", "staging", all_aliased_js_dependencies(Data)))
    /\ IF run_subprocess_raises(exit)
       THEN Leave("install_raised")
       ELSE /\ staging' = [staging EXCEPT !.packages = all_aliased_js_dependencies(Data)]
            /\ pc' = "run_build"
            /\ UNCHANGED outcome
    /\ UNCHANGED <<BUILD_CONFIG, tree, history, bundlerCleans, query, app, proc>>

\* build(), line 96: _npm_run_build(temp_app_dir)
BuildRunBuild(exit) ==
    /\ pc = "run_build"
    /\ calls' = Append(calls, Call("build", "staging", <<>>))
    /\ IF run_subprocess_raises(exit)
       THEN Leave("run_build_raised")
       ELSE /\ staging' = [staging EXCEPT
                              !.build = BundlerOutput(staging.build, staging.install, bundlerCleans)]
            /\ pc' = "rmtree"
            /\ UNCHANGED outcome
    /\ UNCHANGED <<BUILD_CONFIG, tree, history, bundlerCleans, query, app, proc>>

\* build(), lines 98-99: BUILD_DIR is deleted when it exists
BuildRmtree ==
    /\ pc = "rmtree"
    /\ tree' = AbsentTree
    /\ pc' = "publish"
    /\ UNCHANGED <<BUILD_CONFIG, staging, calls, outcome, history, bundlerCleans, query, app, proc>>

BuildRmtreeFails ==
    /\ pc = "rmtree"
    /\ tree.state # "absent"
    /\ tree' \in PartialOf(tree) \cup {tree}
    /\ Leave("rmtree_raised")
    /\ UNCHANGED <<BUILD_CONFIG, calls, history, bundlerCleans, query, app, proc>>

\* mutant: build() returns after the delete without copying the result
BuildPublishSkipsCopy ==
    /\ pc = "publish"
    /\ UNCHANGED tree
    /\ Leave("ok")
    /\ UNCHANGED <<BUILD_CONFIG, calls, history, bundlerCleans, query, app, proc>>

\* build(), line 101: the staged build result is copied to BUILD_DIR
BuildPublish ==
    /\ pc = "publish"
    /\ tree' = staging.build
    /\ Leave("ok")
    /\ UNCHANGED <<BUILD_CONFIG, calls, history, bundlerCleans, query, app, proc>>

BuildPublishFails ==
    /\ pc = "publish"
    /\ tree' \in PartialOf(staging.build) \cup {AbsentTree}
    /\ Leave("publish_raised")
    /\ UNCHANGED <<BUILD_CONFIG, calls, history, bundlerCleans, query, app, proc>>

\* mutant: restore() rebuilds without deleting BUILD_DIR first
RestoreKeepsTree ==
    /\ pc = "idle"
    /\ Enter("restore", <<>>, NoDisc)
    /\ pc' = "restore_install"
    /\ outcome' = "running"
    /\ UNCHANGED <<BUILD_CONFIG, tree, staging, bundlerCleans, query, app, proc>>

\* restore(), line 106: shutil.rmtree(BUILD_DIR) raises when BUILD_DIR is missing
RestoreRmtree ==
    /\ pc = "idle"
    /\ Enter("restore", <<>>, NoDisc)
    /\ IF tree.state = "absent"
       THEN /\ pc' = "idle"
            /\ outcome' = "rmtree_raised"
            /\ UNCHANGED tree
       ELSE /\ pc' = "restore_install"
            /\ outcome' = "running"
            /\ tree' = AbsentTree
    /\ UNCHANGED <<BUILD_CONFIG, staging, bundlerCleans, query, app, proc>>

\* mutant: a failed install puts the deleted BUILD_DIR back
RestoreInstallPutsBack(exit) ==
    /\ pc = "restore_install"
    /\ calls' = Append(calls, Call("install", "APP_DIR", <<>>))
    /\ pc' = IF run_subprocess_raises(exit) THEN "idle" ELSE "restore_run_build"
    /\ outcome' = IF run_subprocess_raises(exit) THEN "install_raised" ELSE outcome
    /\ tree' = IF run_subprocess_raises(exit) THEN treeAtCall ELSE tree
    /\ app' = IF run_subprocess_raises(exit) THEN app ELSE [app EXCEPT !.node_modules = TRUE]
    /\ UNCHANGED <<BUILD_CONFIG, staging, history, bundlerCleans, query, proc>>

\* restore(), line 107: _run_subprocess(["npm", "install"], APP_DIR)
RestoreInstall(exit) ==
    /\ pc = "restore_install"
    /\ calls' = Append(calls, Call("install", "APP_DIR", <<>>))
    /\ pc' = IF run_subprocess_raises(exit) THEN "idle" ELSE "restore_run_build"
    /\ outcome' = IF run_subprocess_raises(exit) THEN "install_raised" ELSE outcome
    /\ app' = IF run_subprocess_raises(exit) THEN app ELSE [app EXCEPT !.node_modules = TRUE]
    /\ UNCHANGED <<BUILD_CONFIG, tree, staging, history, bundlerCleans, query, proc>>

\* restore(), line 108: _run_subprocess(["npm", "run", "build"], APP_DIR)
RestoreRunBuild(exit) ==
    /\ pc = "restore_run_build"
    /\ calls' = Append(calls, Call("build", "APP_DIR", <<>>))
    /\ pc' = "idle"
    /\ IF run_subprocess_raises(exit)
       THEN /\ outcome' = "run_build_raised"
            /\ tree' \in PartialOf(BundlerOutput(tree, app.install, bundlerCleans))
                         \cup {AbsentTree}
       ELSE /\ outcome' = "ok"
            /\ tree' = BundlerOutput(tree, app.install, bundlerCleans)
    /\ UNCHANGED <<BUILD_CONFIG, staging, history, bundlerCleans, query, app, proc>>

\* a client calls find_client_build_path(rel_path) between operations
FindClientBuildPath(rel_path) ==
    /\ pc = "idle"
    /\ query' = [asked |-> TRUE, rel_path |-> rel_path,
                 res |-> find_client_build_path(rel_path, tree)]
    /\ UNCHANGED <<pc, BUILD_CONFIG, tree, staging, calls, outcome, history, bundlerCleans, app, proc>>

ItemLists == SeqsUpTo(Items, MaxItems)

Next ==
    \/ \E items \in ItemLists, disc \in DiscResults : BuildTransactionRaises(items, disc)
    \/ \E items \in ItemLists, disc \in DiscResults : BuildTransaction(items, disc)
    \/ BuildMkTemp
    \/ BuildCopyTree
    \/ BuildCopyTreeFails
    \/ BuildMerge
    \/ BuildMergeFails
    \/ \E exit \in ExitCodes : BuildInstall(exit)
    \/ \E exit \in ExitCodes : BuildRunBuild(exit)
    \/ BuildRmtree
    \/ BuildRmtreeFails
    \/ BuildPublish
    \/ BuildPublishFails
    \/ RestoreRmtree
    \/ \E exit \in ExitCodes : RestoreInstall(exit)
    \/ \E exit \in ExitCodes : RestoreRunBuild(exit)

Spec == Init /\ [][Next]_vars

----------------------------------------------------------------------------
(* The accessor on its own: find_client_build_path applied to every input   *)
(* of the bounded set, over build directories that build() and restore()    *)
(* leave behind.                                                            *)

BuiltTree == [state |-> "complete", modules |-> {"core", "A_p"}, cfg |-> << <<(<<"A", "p">>)>> >>]

PathTrees == {PristineTree, AbsentTree, BuiltTree}

PathInit ==
    /\ pc = "idle"
    /\ BUILD_CONFIG = <<>>
    /\ tree \in PathTrees
    /\ staging = NoDir
    /\ calls = <<>>
    /\ op = "none"
    /\ outcome = "none"
    /\ curItems = <<>>
    /\ curDisc = NoDisc
    /\ treeAtCall = PristineTree
    /\ dataAtCall = <<>>
    /\ repeat = FALSE
    /\ bundlerCleans = FALSE
    /\ query = NoQuery
    /\ app = Template
    /\ proc = NoProc

\* the function is pure: one call per behaviour covers every input
PathNext == ~query.asked /\ \E rel_path \in PathInputs : FindClientBuildPath(rel_path)

PathSpec == PathInit /\ [][PathNext]_vars

----------------------------------------------------------------------------
(* The subprocess wrapper on its own: _run_subprocess for every exit status *)
(* and every captured stderr of the bounded set.                            *)

ToolInit ==
    /\ pc = "idle"
    /\ BUILD_CONFIG = <<>>
    /\ tree = PristineTree
    /\ staging = NoDir
    /\ calls = <<>>
    /\ op = "none"
    /\ outcome = "none"
    /\ curItems = <<>>
    /\ curDisc = NoDisc
    /\ treeAtCall = PristineTree
    /\ dataAtCall = <<>>
    /\ repeat = FALSE
    /\ bundlerCleans = FALSE
    /\ query = NoQuery
    /\ app = Template
    /\ \E exit \in ExitCodes, stderr \in StderrOutputs :
          proc = [NoProc EXCEPT !.exit = exit, !.stderr = stderr]

ToolNext == RunSubprocess

ToolSpec == ToolInit /\ [][ToolNext]_vars

----------------------------------------------------------------------------
(* Claims *)

AllSources == Sources \cup Healthy \cup Broken

UrlsNow == [s \in AllSources, p \in Packages |-> web_module_url(Data, tree, s, p)]
UrlsAtCall == [s \in AllSources, p \in Packages |-> web_module_url(dataAtCall, treeAtCall, s, p)]

\* C1: when the install step of build() exits non-zero, BUILD_DIR is, once
\* build() has raised, identical to what it was before the call, and
\* web_module_url returns for every pair what it returned before the call.
C1_InstallFailureLeavesTreeAndUrls ==
    (pc = "idle" /\ op = "build" /\ outcome = "install_raised")
        => (tree = treeAtCall /\ UrlsNow = UrlsAtCall)

\* C2: a build() that fails in the transaction, the staging copy, the manifest
\* merge, the install or the bundler run leaves BUILD_DIR identical to its
\* content before the call.
C2_FailedBuildLeavesTree ==
    (pc = "idle" /\ op = "build"
        /\ outcome \in {"transaction_raised", "save_raised", "copytree_raised",
                        "merge_raised", "install_raised", "run_build_raised"})
        => tree = treeAtCall

\* the modules of the build result of the running / last build()
NewBuildModules ==
    BundlerOutput(treeAtCall, MergedInstall(TemplateInstall, Data), bundlerCleans).modules

\* C3: in every state of a build() called on a complete BUILD_DIR, the
\* intermediate states of the call included, BUILD_DIR is the complete previous
\* build or the complete new build, never missing or partially written.
C3_TreeAlwaysComplete ==
    (op = "build" /\ treeAtCall.state = "complete")
        => /\ tree.state = "complete"
           /\ tree.modules \in {treeAtCall.modules, NewBuildModules}

\* C4: the staging directory created by build() no longer exists once build()
\* has returned, normally or by raising at any step.
C4_StagingGoneAfterBuild == pc = "idle" => ~staging.exists

C4_Witness ==
    /\ pc = "idle" /\ op = "build" /\ ~staging.exists
    /\ outcome = "publish_raised"

\* C5: when Discovery returns errors together with collected entries, build()
\* does not abort on them: the transaction's body does not raise, the collected
\* entries are in the committed store, and build() goes on to the staging steps.
C5_DiscoveryErrorsDoNotAbort ==
    (op = "build" /\ curDisc.err # {} /\ outcome # "save_raised")
        => /\ outcome # "transaction_raised"
           /\ Range(find_python_packages_build_config_items(curDisc).configs) \subseteq Range(Data)
           /\ pc = "idle" => outcome \in {"copytree_raised", "merge_raised", "install_raised",
                                          "run_build_raised", "rmtree_raised", "publish_raised",
                                          "ok"}

C5_Witness ==
    /\ op = "build" /\ curDisc.err # {} /\ curDisc.ok # {}
    /\ pc = "rmtree"
    /\ Len(calls) = 2

\* C6: a successful build() that repeats the entries and the Discovery result of
\* the successful build() right before it leaves the store and BUILD_DIR as
\* that first call left them.
C6_RepeatedBuildIdempotent ==
    (pc = "idle" /\ op = "build" /\ repeat /\ outcome = "ok")
        => (Data = dataAtCall /\ tree = treeAtCall)

C6_Witness ==
    /\ pc = "idle" /\ op = "build" /\ repeat /\ outcome = "ok"
    /\ Len(Data) = 2
    /\ tree.modules = {"core", "A_p", "B_p"}

\* C7: after a successful restore(), web_module_url returns None for every
\* (source_name, package_name) pair, whatever builds registered before.
C7_RestoreDropsCustomUrls ==
    (pc = "idle" /\ op = "restore" /\ outcome = "ok")
        => \A s \in AllSources, p \in Packages : web_module_url(Data, tree, s, p) = None

C7_Witness ==
    /\ pc = "idle" /\ op = "restore" /\ outcome = "ok"
    /\ Len(Data) = 2
    /\ treeAtCall.modules = {"core", "A_p", "B_p"}

\* C8: restore(), called in any state, deletes BUILD_DIR and runs the install
\* tool and then the build tool in APP_DIR; it fails only by a non-zero exit of
\* one of the two tools.
C8_RestoreFailsOnlyByTools ==
    (pc = "idle" /\ op = "restore")
        => /\ outcome \in {"ok", "install_raised", "run_build_raised"}
           /\ calls # <<>>
           /\ calls[1] = Call("install", "APP_DIR", <<>>)
           /\ outcome # "install_raised" => calls = <<Call("install", "APP_DIR", <<>>),
                                                      Call("build", "APP_DIR", <<>>)>>

\* os.path.isabs on a POSIX path
IsAbsolute(rel_path) == Len(rel_path) > 0 /\ Head(rel_path) = "/"

\* C9: find_client_build_path raises for every absolute input, before any file
\* system access; for every other input it returns the path joined under
\* BUILD_DIR when that path exists and None when it does not.
C9_FindClientBuildPath ==
    query.asked =>
        IF IsAbsolute(query.rel_path)
        THEN query.res.raised /\ ~query.res.fs /\ ~query.res.found
        ELSE /\ ~query.res.raised
             /\ query.res.found = exists(joinpath(BUILD_DIR, split(query.rel_path)), tree)
             /\ query.res.found => query.res.path = joinpath(BUILD_DIR, split(query.rel_path))
             /\ ~query.res.found => query.res.path = <<>>

C9_Witness ==
    /\ query.asked /\ query.res.found
    /\ query.rel_path = <<"web_modules", "/", "A_p.js">>

C9_WitnessAbsolute ==
    /\ query.asked /\ query.res.raised
    /\ query.rel_path = <<"/", "package.json">>

IsPrefix(s, t) == Len(s) <= Len(t) /\ SubSeq(t, 1, Len(s)) = s

\* C10: every path find_client_build_path returns designates a location
\* inside BUILD_DIR.
C10_ResultInsideBuildDir ==
    (query.asked /\ query.res.found)
        => IsPrefix(<<"client", "app", "build">>, Resolve(<<>>, query.res.path, tree).loc)

\* the file web_modules/<alias>.js of a pair's alias is in BUILD_DIR
ModuleFileExists(s, p) ==
    <<"client", "app", "build", "web_modules", AliasOf(<<s, p>>) \o ".js">> \in FsFiles(tree)

\* C11: in every state, web_module_url(source, package) is not None exactly
\* when the store holds an alias for the pair and web_modules/<alias>.js
\* exists in BUILD_DIR; it is then "../web_modules/<alias>.js"; the lookup of
\* the file never raises.
C11_WebModuleUrl ==
    \A s \in AllSources, p \in Packages :
        LET url == web_module_url(Data, tree, s, p)
            held == <<s, p>> \in Range(Data)
        IN  /\ (url # None) = (held /\ ModuleFileExists(s, p))
            /\ url # None => url = "../web_modules/" \o AliasOf(<<s, p>>) \o ".js"
            /\ held => ~find_client_build_path(
                            <<"web_modules", "/", AliasOf(<<s, p>>) \o ".js">>, tree).raised

C11_Witness ==
    /\ pc = "idle" /\ op = "restore" /\ outcome = "run_build_raised"
    /\ web_module_url(Data, tree, "A", "p") = None
    /\ web_module_url(dataAtCall, treeAtCall, "A", "p") = "../web_modules/A_p.js"

\* C12: web_module_exports(source, package) returns the empty sequence and
\* does not raise whenever no alias is registered for the pair or the built
\* module file of the alias does not exist in BUILD_DIR.
C12_WebModuleExportsEmpty ==
    \A s \in AllSources, p \in Packages :
        (<<s, p>> \notin Range(Data) \/ ~ModuleFileExists(s, p))
            => web_module_exports(Data, tree, s, p) = [raised |-> FALSE, exports |-> <<>>]

C12_Witness ==
    /\ pc = "idle" /\ op = "build" /\ outcome = "run_build_raised"
    /\ <<"A", "p">> \in Range(Data)
    /\ ~ModuleFileExists("A", "p")
    /\ web_module_exports(Data, tree, "B", "p").exports = <<"default">>

\* the stores: sequences of distinct entries
Stores == {d \in SeqsUpTo(Pairs, Cardinality(Pairs)) : Cardinality(Range(d)) = Len(d)}

\* manifest lists that may already hold the name of an alias
InstallLists == SeqsUpTo({"core", "A_p"}, 2)

\* C13: the manifest merge is additive: after it the staged snowpack.install
\* list is the template's list followed by every alias of the store in store
\* order (an alias the list already holds is kept and appended again), and the
\* other sections of the staged package.json are those of the template.
C13_MergeAdditive ==
    /\ pc = "install" => /\ staging.install = app.install \o [i \in 1..Len(Data) |-> AliasOf(Data[i])]
                         /\ staging.rest = app.rest
    /\ \A install \in InstallLists, data \in Stores :
          MergedInstall(install, data) = install \o [i \in 1..Len(data) |-> AliasOf(data[i])]

C13_Witness ==
    /\ pc = "install"
    /\ Data = << <<"B", "p">>, <<"A", "p">> >>
    /\ staging.install = <<"core", "B_p", "A_p">>
    /\ staging.rest = "scripts"

\* C14: every external tool invocation that exits non-zero raises an error
\* whose message is the captured stderr text, unchanged; an invocation that
\* exits zero raises nothing.
C14_StderrVerbatim ==
    proc.ran =>
        IF proc.exit # 0
        THEN proc.raised = "SubprocessError" /\ encode(proc.message) = proc.stderr
        ELSE proc.raised = "none"

\* C15: when the install tool or the build tool fails during restore(),
\* BUILD_DIR has already been deleted and is not put back: it is missing, or
\* holds only what the failed build tool wrote (none of the store's file or the
\* custom modules it held); when the install tool fails the build tool is not
\* run.
C15_RestoreToolFailure ==
    /\ (pc = "idle" /\ op = "restore" /\ outcome = "install_raised")
          => /\ tree = AbsentTree
             /\ calls = <<Call("install", "APP_DIR", <<>>)>>
    /\ (pc = "idle" /\ op = "restore" /\ outcome = "run_build_raised")
          => /\ tree.state \in {"absent", "partial"}
             /\ tree.cfg = <<>>
             /\ tree.modules \subseteq Range(app.install)

C15_Witness ==
    /\ pc = "idle" /\ op = "restore" /\ outcome = "install_raised"
    /\ treeAtCall.state = "complete"
    /\ "A_p" \in treeAtCall.modules
    /\ treeAtCall.cfg # <<>>
    /\ tree = AbsentTree

\* C16: when the transaction's body raises, build() propagates the error
\* without creating the staging directory and without invoking a tool, and the
\* store does not retain the partial update: its contents are those it had
\* when build() was called, and BUILD_DIR is as it was.
C16_TransactionRaises ==
    (pc = "idle" /\ op = "build" /\ outcome = "transaction_raised")
        => /\ Data = dataAtCall
           /\ calls = <<>>
           /\ ~staging.exists
           /\ tree = treeAtCall

C16_Witness ==
    /\ pc = "idle" /\ op = "build" /\ outcome = "transaction_raised"
    /\ curItems = << <<"A", "p">>, BadItem >>
    /\ <<"A", "p">> \notin Range(Data)
    /\ Data # <<>>

\* C17: build() never modifies the template outside BUILD_DIR (the
\* package.json and node_modules of APP_DIR): no step of a build() call,
\* whether the call succeeds or fails, changes it.
C17_BuildLeavesTemplate == [][op' = "build" => app' = app]_vars

C17_Witness ==
    /\ pc = "idle" /\ op = "build" /\ outcome = "ok"
    /\ Len(Data) = 2
    /\ tree.modules = {"core", "A_p", "B_p"}
    /\ app = [Template EXCEPT !.node_modules = TRUE]

\* what the transaction of the running / last build() committed
CommittedData ==
    update_config_items(update_config_items(dataAtCall, curItems).data,
                        find_python_packages_build_config_items(curDisc).configs).data

\* C18: the commit of the store is not undone by a later failure: after the
\* install tool or the bundler has failed in build(), the store still holds
\* the entries the call committed (so it can list aliases that have no built
\* module).
C18_CommitNotUndone ==
    (pc = "idle" /\ op = "build" /\ outcome \in {"install_raised", "run_build_raised"})
        => /\ Data = CommittedData
           /\ \A i \in 1..Len(curItems) : curItems[i] \in Range(Data)
           /\ curDisc.ok \subseteq {d[1] : d \in Range(Data)}

C18_Witness ==
    /\ pc = "idle" /\ op = "build" /\ outcome = "install_raised"
    /\ <<"A", "p">> \in Range(Data)
    /\ <<"A", "p">> \notin Range(dataAtCall)
    /\ get_js_dependency_alias(Data, "A", "p") = "A_p"
    /\ "A_p" \notin tree.modules

\* the build result produced in the staging directory by the running / last
\* build(): the bundler's output over the copy of BUILD_DIR taken after the
\* commit, for the manifest merged with the committed store
StagedResults ==
    {BundlerOutput(saved.dir, MergedInstall(app.install, CommittedData), bundlerCleans) :
        saved \in {o \in SaveOutcomes(treeAtCall, CommittedData) : o.ok}}

\* both tools of the last build() were run and neither failed
BothToolsSucceeded ==
    /\ pc = "idle" /\ op = "build"
    /\ Len(calls) = 2
    /\ outcome # "run_build_raised"

====
